---- MODULE Spec2Model ----
(***************************************************************************)
(* Model of stream::OpenmcHeatDriver (src/src/openmc_heat_driver.cpp): the *)
(* coupling of an OpenMC transport solve with a surrogate heat solve.      *)
(*                                                                         *)
(*   Spec         the constructor (init_mappings, init_tallies) against a  *)
(*                transport geometry that is revealed one point-location   *)
(*                query at a time, so that every assignment of sample      *)
(*                points to cell instances is explored;                    *)
(*   SpecCoupled  the whole life of one driver, constructor then           *)
(*                solve_step with the data it moves, on a communicator of  *)
(*                one rank, against a family of transport geometries;      *)
(*   SpecRanks    solve_step on several ranks of one communicator: the     *)
(*                control flow of each rank and the barriers.              *)
(*                                                                         *)
(* Indices are 0-based as in the source.  A double is modelled by an exact *)
(* rational <<numerator, denominator>> in lowest terms.  Lengths carry a   *)
(* factor LenScale (x, y) or 2 (z) so that midpoints and the cosine table  *)
(* stay integers.                                                          *)
(***************************************************************************)
EXTENDS Integers, Sequences, FiniteSets, TLC

VARIABLES
  \* heat_driver_ (SurrogateHeatDriver): grid sizes and fields
  n_pins_, n_axial_, n_fuel_rings_, n_clad_rings_,
  source_, temperature_, heat_active,
  \* openmc_driver_ (OpenmcDriver): registry, tallies, cell temperatures
  cells_, openmc_active, tally, tally_requests, cell_temperature,
  geom,          \* the transport geometry as far as point location has revealed it
  \* OpenmcHeatDriver
  max_timesteps_, max_picard_iter_,
  cell_inst_to_ring_, ring_to_cell_inst_,
  tracked,       \* init_mappings' local map CellInstance -> registry index
  frame,         \* init_mappings' loop variables i, j, k, ring_index
  pc, i_timestep, i_picard,
  \* solve_step on the ranks of comm_
  rank_pc, rank_timestep, rank_picard, rank_openmc_active, rank_heat_active,
  barrier_calls, solve_args, events

driver_vars == <<n_pins_, n_axial_, n_fuel_rings_, n_clad_rings_, source_,
                 temperature_, heat_active, cells_, openmc_active, tally,
                 tally_requests, cell_temperature, geom, cell_inst_to_ring_,
                 ring_to_cell_inst_, tracked, frame, pc, i_timestep, i_picard>>

rank_vars == <<rank_pc, rank_timestep, rank_picard, rank_openmc_active,
               rank_heat_active, barrier_calls, solve_args, events>>

vars == <<driver_vars, rank_vars, max_timesteps_, max_picard_iter_>>

----------------------------------------------------------------------------
(* Bounds *)

MaxPins == 2
MaxCells == 2
MaxTimesteps == 2
MaxPicard == 3
\* picard iterations of the single timestep SpecCoupled runs
MaxCoupledPicard == 2
NumRanks == 2

----------------------------------------------------------------------------
(* Arithmetic on doubles, as exact rationals *)

Abs(n) == IF n < 0 THEN -n ELSE n

RECURSIVE GCD(_, _)
GCD(a, b) == IF b = 0 THEN a ELSE GCD(b, a % b)

Rat(n, d) ==
  LET g == GCD(Abs(n), Abs(d))
      s == IF d < 0 THEN -1 ELSE 1
  IN  <<(s * n) \div g, (s * d) \div g>>

Zero == Rat(0, 1)

RatDivInt(a, n) == Rat(a[1], a[2] * n)

RatOfInt(n) == Rat(n, 1)

----------------------------------------------------------------------------
(* The heat driver's grid (SurrogateHeatDriver), read by init_mappings *)

n_azimuthal == 4

\* 100 * cos(2*m*PI/n_azimuthal + 0.01) and 100 * sin(...), rounded, m = 0..3
CosScale == 100

Cos100(m) == <<100, -1, -100, 1>>[m + 1]

Sin100(m) == <<1, 100, -1, -100>>[m + 1]

\* one unit of x or y is 1 / LenScale of a unit of the radial grids
LenScale == 2 * CosScale

NRings == n_fuel_rings_ + n_clad_rings_

\* radial boundaries of the fuel rings, k = 0 .. n_fuel_rings_
r_grid_fuel_(k) == 3 * k

\* radial boundaries of the cladding rings, m = 0 .. n_clad_rings_
r_grid_clad_(m) == 3 * n_fuel_rings_ + 1 + m

\* axial boundaries, j = 0 .. n_axial_
z_(j) == 10 * j

\* centre of pin i, as <<x, y>>
pin_centers_(i) == <<30 * i, 0>>

Pins == 0 .. n_pins_ - 1

Layers == 0 .. n_axial_ - 1

Radials == 0 .. NRings - 1

RingCells == Pins \X Layers \X Radials

RingCount == n_pins_ * n_axial_ * NRings

\* the running counter ring_index when the loops stand at (i, j, k)
FlatIndex(i, j, k) == (i * n_axial_ + j) * NRings + k

\* xt::flatten: the (pin, layer, ring) cell at a flattened index
Unflatten(r) == <<r \div (n_axial_ * NRings), (r \div NRings) % n_axial_, r % NRings>>

----------------------------------------------------------------------------
(* init_mappings *)

\* twice the midpoint radius of radial ring k
Ravg2(k) ==
  IF k < n_fuel_rings_
    THEN r_grid_fuel_(k) + r_grid_fuel_(k + 1)
    ELSE r_grid_clad_(k - n_fuel_rings_) + r_grid_clad_(k - n_fuel_rings_ + 1)

\* Position r {x, y, zavg} of azimuthal sample m of layer j, radial ring k:
\* x and y in units of 1 / LenScale, z in units of 1 / 2
SamplePosition(j, k, m) ==
  [x |-> Ravg2(k) * Cos100(m), y |-> Ravg2(k) * Sin100(m), z |-> z_(j) + z_(j + 1)]

\* the material the transport model assigns to a cell instance (1-based)
MaterialIndex(id) == ((2 * id) % 3) + 1

\* CellInstance c {r}: the cell instance found at a point, with its material
CellInstance(id) == [id |-> id, material_index_ |-> MaterialIndex(id)]

MapPush(tbl, key, val) ==
  IF key \in DOMAIN tbl
    THEN [tbl EXCEPT ![key] = Append(@, val)]
    ELSE tbl @@ (key :> <<val>>)

\* the size of the registry taken for the index of its last element
TrackedIndexNoOffset(cells) == Len(cells)

\* tracked[c] = openmc_driver_->cells_.size() - 1, after the push_back
TrackedIndex(cells) == Len(cells) - 1

\* the reverse table keyed by the ring instead of the cell instance
PushRingSwapped(tbl, array_index, ring_index) == MapPush(tbl, ring_index, array_index)

\* cell_inst_to_ring_[array_index].push_back(ring_index)
PushRing(tbl, array_index, ring_index) == MapPush(tbl, array_index, ring_index)

\* a forward table that keeps a cell instance once per ring
PushCellOnce(tbl, ring_index, array_index) ==
  IF ring_index \in DOMAIN tbl /\ \E n \in 1 .. Len(tbl[ring_index]) : tbl[ring_index][n] = array_index
    THEN tbl
    ELSE MapPush(tbl, ring_index, array_index)

\* ring_to_cell_inst_[ring_index].push_back(array_index)
PushCell(tbl, ring_index, array_index) == MapPush(tbl, ring_index, array_index)

\* the body of the loop over azimuthal segments for one located cell instance
Sample(st, c, ring_index) ==
  LET unseen == c.id \notin DOMAIN st.tracked
      cells1 == IF unseen THEN Append(st.cells_, c) ELSE st.cells_
      tracked1 == IF unseen
                    THEN st.tracked @@ (c.id :> TrackedIndex(cells1))
                    ELSE st.tracked
      array_index == tracked1[c.id]
  IN  [cells_ |-> cells1,
       tracked |-> tracked1,
       cell_inst_to_ring_ |-> PushRing(st.cell_inst_to_ring_, array_index, ring_index),
       ring_to_cell_inst_ |-> PushCell(st.ring_to_cell_inst_, ring_index, array_index)]

\* the loop over m = 0 .. n_azimuthal - 1, sample m resolving to cell cs[m]
RECURSIVE SampleAzimuths(_, _, _, _)
SampleAzimuths(st, cs, ring_index, m) ==
  IF m = n_azimuthal
    THEN st
    ELSE SampleAzimuths(Sample(st, CellInstance(cs[m]), ring_index), cs, ring_index, m + 1)

\* the loop variables after ++ring_index and the three loop headers
NextFrame(f) ==
  IF f.k + 1 < NRings
    THEN [f EXCEPT !.k = f.k + 1, !.ring_index = f.ring_index + 1]
    ELSE IF f.j + 1 < n_axial_
      THEN [f EXCEPT !.j = f.j + 1, !.k = 0, !.ring_index = f.ring_index + 1]
      ELSE [f EXCEPT !.i = f.i + 1, !.j = 0, !.k = 0, !.ring_index = f.ring_index + 1]

KnownCells == {geom[p] : p \in DOMAIN geom}

\* cs is what point location answers for the samples of the current ring: the
\* recorded answer for a point asked before, otherwise any cell instance (its
\* id the next unused one when it is a cell instance not met before)
Located(cs) ==
  \A m \in 0 .. n_azimuthal - 1 :
    LET p == SamplePosition(frame.j, frame.k, m)
    IN  IF p \in DOMAIN geom
          THEN cs[m] = geom[p]
          ELSE cs[m] <= Cardinality(KnownCells \cup {cs[n] : n \in 0 .. m - 1}) + 1

RingPositions(j, k) == {SamplePosition(j, k, m) : m \in 0 .. n_azimuthal - 1}

\* one pass of the loop over radial rings (lines 55-84) for the ring at frame
SampleRing ==
  /\ pc = "init_mappings"
  /\ \E cs \in [0 .. n_azimuthal - 1 -> 1 .. MaxCells] :
       /\ Located(cs)
       /\ LET st == SampleAzimuths(
                      [cells_ |-> cells_, tracked |-> tracked,
                       cell_inst_to_ring_ |-> cell_inst_to_ring_,
                       ring_to_cell_inst_ |-> ring_to_cell_inst_],
                      cs, frame.ring_index, 0)
              ps == RingPositions(frame.j, frame.k)
          IN  /\ cells_' = st.cells_
              /\ tracked' = st.tracked
              /\ cell_inst_to_ring_' = st.cell_inst_to_ring_
              /\ ring_to_cell_inst_' = st.ring_to_cell_inst_
              /\ geom' = [p \in DOMAIN geom \cup ps |->
                            IF p \in DOMAIN geom
                              THEN geom[p]
                              ELSE cs[CHOOSE m \in 0 .. n_azimuthal - 1 :
                                        SamplePosition(frame.j, frame.k, m) = p]]
  /\ frame' = NextFrame(frame)
  /\ pc' = IF frame'.i < n_pins_ THEN "init_mappings" ELSE "init_tallies"
  /\ UNCHANGED <<n_pins_, n_axial_, n_fuel_rings_, n_clad_rings_, source_,
                 temperature_, heat_active, openmc_active, tally, tally_requests,
                 cell_temperature, i_timestep, i_picard, rank_vars,
                 max_timesteps_, max_picard_iter_>>

----------------------------------------------------------------------------
(* init_tallies *)

\* the one-based material index passed on unchanged
TallyMaterialOneBased(c) == c.material_index_

\* mats.push_back(c.material_index_ - 1)
TallyMaterial(c) == c.material_index_ - 1

InitTallies ==
  /\ pc = "init_tallies"
  /\ tally_requests' =
       IF openmc_active
         THEN Append(tally_requests, [n \in 1 .. Len(cells_) |-> TallyMaterial(cells_[n])])
         ELSE tally_requests
  /\ pc' = "constructed"
  /\ UNCHANGED <<n_pins_, n_axial_, n_fuel_rings_, n_clad_rings_, source_,
                 temperature_, heat_active, cells_, openmc_active, tally,
                 cell_temperature, geom, cell_inst_to_ring_, ring_to_cell_inst_,
                 tracked, frame, i_timestep, i_picard, rank_vars,
                 max_timesteps_, max_picard_iter_>>

----------------------------------------------------------------------------
(* solve_step: the loops over timesteps and picard iterations *)

\* i_timestep < max_timesteps_
TimestepContinues(t) == t < max_timesteps_

\* the inner loop with <= for <
PicardContinuesInclusive(k) == k <= max_picard_iter_

\* i_picard < max_picard_iter_
PicardContinues(k) == k < max_picard_iter_

\* int i = i_timestep*max_timesteps_ + i_picard
IterationIndex(t, k) == t * max_timesteps_ + k

\* the first pass of the inner loop body, if there is one
FirstIteration ==
  IF TimestepContinues(0) /\ PicardContinues(0)
    THEN [more |-> TRUE, t |-> 0, k |-> 0]
    ELSE [more |-> FALSE, t |-> 0, k |-> 0]

\* the pass of the inner loop body after pass (t, k): ++i_picard, then
\* ++i_timestep when the inner loop has ended
NextIteration(t, k) ==
  IF PicardContinues(k + 1)
    THEN [more |-> TRUE, t |-> t, k |-> k + 1]
    ELSE IF TimestepContinues(t + 1) /\ PicardContinues(0)
      THEN [more |-> TRUE, t |-> t + 1, k |-> 0]
      ELSE [more |-> FALSE, t |-> t, k |-> k]

----------------------------------------------------------------------------
(* update_heat_source *)

\* auto Q = openmc_driver_->heat_source(power_): Q(idx) for cell instance idx
Q(idx) == tally.base + tally.slope * idx

\* the fuel test with <= for <
IsFuelRingInclusive(k) == k <= n_fuel_rings_

\* only update heat source in fuel
IsFuelRing(k) == k < n_fuel_rings_

\* q_avg += Q(idx) over the entries of cell_instances, in order
RECURSIVE SumQ(_)
SumQ(cell_instances) ==
  IF cell_instances = <<>>
    THEN 0
    ELSE Q(Head(cell_instances)) + SumQ(Tail(cell_instances))

\* q_avg /= cell_instances.size()
AverageQ(cell_instances) == RatDivInt(RatOfInt(SumQ(cell_instances)), Len(cell_instances))

\* source_ after zeroing it and setting the fuel rings
ProjectedSource ==
  [c \in RingCells |->
     IF IsFuelRing(c[3])
       THEN AverageQ(ring_to_cell_inst_[FlatIndex(c[1], c[2], c[3])])
       ELSE Zero]

----------------------------------------------------------------------------
(* update_temperature *)

\* auto temperature = xt::flatten(heat_driver_->temperature_)
Temperature(ring_index) == temperature_[Unflatten(ring_index)]

\* int i = ring_index % heat_driver_->n_rings()
RadialIndex(ring_index) == ring_index % NRings

\* the difference of the radii instead of their squares
RingVolumeLinear(i) ==
  IF i < n_fuel_rings_
    THEN r_grid_fuel_(i + 1) - r_grid_fuel_(i)
    ELSE r_grid_clad_(i - n_fuel_rings_ + 1) - r_grid_clad_(i - n_fuel_rings_)

\* difference in r**2 as a proxy for volume
RingVolume(i) ==
  IF i < n_fuel_rings_
    THEN r_grid_fuel_(i + 1) * r_grid_fuel_(i + 1) - r_grid_fuel_(i) * r_grid_fuel_(i)
    ELSE LET j == i - n_fuel_rings_
         IN  r_grid_clad_(j + 1) * r_grid_clad_(j + 1) - r_grid_clad_(j) * r_grid_clad_(j)

\* the loop over rings: <<average_temp, total_vol>> before the division
RECURSIVE Accumulate(_)
Accumulate(rings) ==
  IF rings = <<>>
    THEN <<0, 0>>
    ELSE LET rest == Accumulate(Tail(rings))
             vol == RingVolume(RadialIndex(Head(rings)))
         IN  <<Temperature(Head(rings)) * vol + rest[1], vol + rest[2]>>

\* average_temp /= total_vol
AverageTemperature(rings) == Rat(Accumulate(rings)[1], Accumulate(rings)[2])

\* c.set_temperature(average_temp) for every cell instance i of the registry
ProjectedTemperature ==
  [i \in 0 .. Len(cells_) - 1 |-> AverageTemperature(cell_inst_to_ring_[i])]

----------------------------------------------------------------------------
(* What the two solvers can leave behind *)

\* tally results the transport solver can hold: heat_source(power_) gives
\* cell instance idx the value base + slope * idx
TallyResults == {[base |-> 4, slope |-> 0], [base |-> 4, slope |-> 6]}

\* temperature fields the heat solver can produce, by (pin, layer, ring)
TemperatureFields ==
  {[c \in RingCells |-> 300 + 20 * FlatIndex(c[1], c[2], c[3])],
   [c \in RingCells |-> 340 - 20 * c[3]]}

----------------------------------------------------------------------------
(* solve_step on a communicator of one rank: Barrier returns at once *)

grid_vars == <<n_pins_, n_axial_, n_fuel_rings_, n_clad_rings_>>

mapping_vars == <<cells_, geom, cell_inst_to_ring_, ring_to_cell_inst_, tracked,
                  frame, tally_requests>>

config_vars == <<heat_active, openmc_active, max_timesteps_, max_picard_iter_>>

\* the call of solve_step and the first evaluation of the loop headers
EnterSolveStep ==
  /\ pc = "constructed"
  /\ pc' = IF FirstIteration.more THEN "transport" ELSE "done"
  /\ i_timestep' = FirstIteration.t
  /\ i_picard' = FirstIteration.k
  /\ UNCHANGED <<grid_vars, mapping_vars, config_vars, rank_vars, source_,
                 temperature_, tally, cell_temperature>>

\* lines 107-113: the transport solve leaves new tally results
TransportSolve ==
  /\ pc = "transport"
  /\ IF openmc_active
       THEN \E results \in TallyResults : tally' = results
       ELSE tally' = tally
  /\ pc' = "update_heat_source"
  /\ UNCHANGED <<grid_vars, mapping_vars, config_vars, rank_vars, source_,
                 temperature_, cell_temperature, i_timestep, i_picard>>

\* line 116
UpdateHeatSource ==
  /\ pc = "update_heat_source"
  /\ source_' = ProjectedSource
  /\ pc' = "heat_solve"
  /\ UNCHANGED <<grid_vars, mapping_vars, config_vars, rank_vars, temperature_,
                 tally, cell_temperature, i_timestep, i_picard>>

\* lines 119-122: the heat solve leaves a new temperature field
HeatSolve ==
  /\ pc = "heat_solve"
  /\ IF heat_active
       THEN \E field \in TemperatureFields : temperature_' = field
       ELSE temperature_' = temperature_
  /\ pc' = "update_temperature"
  /\ UNCHANGED <<grid_vars, mapping_vars, config_vars, rank_vars, source_, tally,
                 cell_temperature, i_timestep, i_picard>>

\* line 125 and the loop headers
UpdateTemperature ==
  /\ pc = "update_temperature"
  /\ cell_temperature' = ProjectedTemperature
  /\ LET n == NextIteration(i_timestep, i_picard)
     IN  /\ pc' = IF n.more THEN "transport" ELSE "done"
         /\ i_timestep' = n.t
         /\ i_picard' = n.k
  /\ UNCHANGED <<grid_vars, mapping_vars, config_vars, rank_vars, source_,
                 temperature_, tally>>

----------------------------------------------------------------------------
(* The state at the entry of init_mappings (constructor, lines 14-28) *)

Ranks == 1 .. NumRanks

\* grids of one pin, as <<n_axial_, n_fuel_rings_, n_clad_rings_>>
GridShapes == {<<1, 1, 0>>, <<1, 1, 1>>, <<1, 2, 0>>, <<2, 1, 0>>}

CoupledGridShapes == GridShapes \cup {<<1, 2, 1>>, <<2, 1, 1>>}

\* the grids the heat driver was built with
GridSizes(shapes) ==
  /\ n_pins_ \in 1 .. MaxPins
  /\ \E g \in shapes :
       /\ n_axial_ = g[1]
       /\ n_fuel_rings_ = g[2]
       /\ n_clad_rings_ = g[3]

\* the members the constructor has set or left empty when init_mappings starts
Constructing ==
  /\ source_ = [c \in RingCells |-> RatOfInt(7)]
  /\ temperature_ = [c \in RingCells |-> 300]
  /\ cells_ = <<>>
  /\ tally_requests = <<>>
  /\ cell_temperature = <<>>
  /\ cell_inst_to_ring_ = <<>>
  /\ ring_to_cell_inst_ = <<>>
  /\ tracked = <<>>
  /\ frame = [i |-> 0, j |-> 0, k |-> 0, ring_index |-> 0]
  /\ pc = "init_mappings"
  /\ i_timestep = 0
  /\ i_picard = 0

\* no rank has entered solve_step
RanksIdle ==
  /\ rank_pc = [p \in Ranks |-> "idle"]
  /\ rank_timestep = [p \in Ranks |-> 0]
  /\ rank_picard = [p \in Ranks |-> 0]
  /\ barrier_calls = [p \in Ranks |-> 0]
  /\ solve_args = [p \in Ranks |-> <<>>]
  /\ events = [p \in Ranks |-> <<>>]

Init ==
  /\ GridSizes(GridShapes)
  /\ Constructing
  /\ tally = [base |-> 4, slope |-> 0]
  /\ geom = <<>>
  /\ openmc_active \in BOOLEAN
  /\ heat_active = TRUE
  /\ max_timesteps_ = 1
  /\ max_picard_iter_ = 1
  /\ RanksIdle
  /\ rank_openmc_active = [p \in Ranks |-> openmc_active]
  /\ rank_heat_active = [p \in Ranks |-> heat_active]

Next == SampleRing \/ InitTallies

Spec == Init /\ [][Next]_vars

----------------------------------------------------------------------------
(* One driver from construction to the end of solve_step *)

\* transport geometries: the cell instance at a point, by the point's place
GeometryKinds == {"uniform", "halves", "quadrant", "radial", "layers", "mixed"}

\* is the point outside the fuel's outer radius?
BeyondFuel(p) ==
  p.x * p.x + p.y * p.y >
    (LenScale * r_grid_fuel_(n_fuel_rings_)) * (LenScale * r_grid_fuel_(n_fuel_rings_))

Locate(kind, p) ==
  CASE kind = "uniform" -> 1
    [] kind = "halves" -> IF p.x > 0 THEN 1 ELSE 2
    [] kind = "quadrant" -> IF p.x > 0 /\ p.y > 0 THEN 2 ELSE 1
    [] kind = "radial" -> IF BeyondFuel(p) THEN 2 ELSE 1
    [] kind = "layers" -> IF p.z > 2 * z_(1) THEN 2 ELSE 1
    [] kind = "mixed" -> IF BeyondFuel(p) \/ (p.x > 0 /\ p.y > 0) THEN 2 ELSE 1

AllPositions == UNION {RingPositions(c[2], c[3]) : c \in RingCells}

InitCoupled ==
  /\ GridSizes(CoupledGridShapes)
  /\ Constructing
  /\ tally \in TallyResults
  /\ \E kind \in GeometryKinds : geom = [p \in AllPositions |-> Locate(kind, p)]
  /\ openmc_active \in BOOLEAN
  /\ heat_active \in BOOLEAN
  /\ max_timesteps_ = 1
  /\ max_picard_iter_ \in 1 .. MaxCoupledPicard
  /\ RanksIdle
  /\ rank_openmc_active = [p \in Ranks |-> openmc_active]
  /\ rank_heat_active = [p \in Ranks |-> heat_active]

NextCoupled ==
  \/ SampleRing
  \/ InitTallies
  \/ EnterSolveStep
  \/ TransportSolve
  \/ UpdateHeatSource
  \/ HeatSolve
  \/ UpdateTemperature

SpecCoupled == InitCoupled /\ [][NextCoupled]_vars

----------------------------------------------------------------------------
(* solve_step on every rank of comm_.  Each rank runs the same loops on its *)
(* own driver; what the projections do to a driver's data is SpecCoupled's *)
(* subject, here a rank's steps are recorded in events.  comm_.Barrier()   *)
(* is MPI_Barrier: a rank leaves its n-th call once every rank of the      *)
(* communicator has made its n-th call.                                    *)

\* if (openmc_driver_->active()) at the head of the loop body
IterationStart(p) == IF rank_openmc_active[p] THEN "init_step" ELSE "barrier1"

\* if (heat_driver_->active()) after update_heat_source
AfterHeatSource(p) == IF rank_heat_active[p] THEN "heat_solve" ELSE "barrier2"

\* a barrier that lets a rank through without waiting for the others
BarrierNeverWaits(p) == TRUE

\* the collective has completed for rank p
BarrierComplete(p) == \A q \in Ranks : barrier_calls[q] >= barrier_calls[p]

Record(p, e) == [events EXCEPT ![p] = Append(@, e)]

\* what solve_step leaves alone: the configuration and the driver's data
rank_fixed == <<driver_vars, rank_openmc_active, rank_heat_active,
                max_timesteps_, max_picard_iter_>>

RankEnter(p) ==
  /\ rank_pc[p] = "idle"
  /\ rank_pc' = [rank_pc EXCEPT ![p] =
                   IF FirstIteration.more THEN IterationStart(p) ELSE "done"]
  /\ rank_timestep' = [rank_timestep EXCEPT ![p] = FirstIteration.t]
  /\ rank_picard' = [rank_picard EXCEPT ![p] = FirstIteration.k]
  /\ UNCHANGED <<barrier_calls, solve_args, events>>
  /\ UNCHANGED rank_fixed

\* openmc_driver_->init_step()
RankInitStep(p) ==
  /\ rank_pc[p] = "init_step"
  /\ rank_pc' = [rank_pc EXCEPT ![p] = "solve_step"]
  /\ events' = Record(p, "init_step")
  /\ UNCHANGED <<rank_timestep, rank_picard, barrier_calls, solve_args>>
  /\ UNCHANGED rank_fixed

\* openmc_driver_->solve_step(i)
RankSolveStep(p) ==
  /\ rank_pc[p] = "solve_step"
  /\ rank_pc' = [rank_pc EXCEPT ![p] = "finalize_step"]
  /\ solve_args' = [solve_args EXCEPT ![p] =
                      Append(@, IterationIndex(rank_timestep[p], rank_picard[p]))]
  /\ events' = Record(p, "solve_step")
  /\ UNCHANGED <<rank_timestep, rank_picard, barrier_calls>>
  /\ UNCHANGED rank_fixed

\* openmc_driver_->finalize_step()
RankFinalizeStep(p) ==
  /\ rank_pc[p] = "finalize_step"
  /\ rank_pc' = [rank_pc EXCEPT ![p] = "barrier1"]
  /\ events' = Record(p, "finalize_step")
  /\ UNCHANGED <<rank_timestep, rank_picard, barrier_calls, solve_args>>
  /\ UNCHANGED rank_fixed

\* the rank calls comm_.Barrier()
RankBarrierEnter(p) ==
  /\ rank_pc[p] \in {"barrier1", "barrier2"}
  /\ rank_pc' = [rank_pc EXCEPT ![p] = IF @ = "barrier1" THEN "wait1" ELSE "wait2"]
  /\ barrier_calls' = [barrier_calls EXCEPT ![p] = @ + 1]
  /\ events' = Record(p, "barrier")
  /\ UNCHANGED <<rank_timestep, rank_picard, solve_args>>
  /\ UNCHANGED rank_fixed

\* comm_.Barrier() returns
RankBarrierLeave(p) ==
  /\ rank_pc[p] \in {"wait1", "wait2"}
  /\ BarrierComplete(p)
  /\ rank_pc' = [rank_pc EXCEPT ![p] =
                   IF @ = "wait1" THEN "update_heat_source" ELSE "update_temperature"]
  /\ UNCHANGED <<rank_timestep, rank_picard, barrier_calls, solve_args, events>>
  /\ UNCHANGED rank_fixed

RankUpdateHeatSource(p) ==
  /\ rank_pc[p] = "update_heat_source"
  /\ rank_pc' = [rank_pc EXCEPT ![p] = AfterHeatSource(p)]
  /\ events' = Record(p, "update_heat_source")
  /\ UNCHANGED <<rank_timestep, rank_picard, barrier_calls, solve_args>>
  /\ UNCHANGED rank_fixed

\* heat_driver_->solve_step()
RankHeatSolve(p) ==
  /\ rank_pc[p] = "heat_solve"
  /\ rank_pc' = [rank_pc EXCEPT ![p] = "barrier2"]
  /\ events' = Record(p, "heat_solve")
  /\ UNCHANGED <<rank_timestep, rank_picard, barrier_calls, solve_args>>
  /\ UNCHANGED rank_fixed

\* update_temperature and the loop headers
RankUpdateTemperature(p) ==
  /\ rank_pc[p] = "update_temperature"
  /\ LET n == NextIteration(rank_timestep[p], rank_picard[p])
     IN  /\ rank_pc' = [rank_pc EXCEPT ![p] = IF n.more THEN IterationStart(p) ELSE "done"]
         /\ rank_timestep' = [rank_timestep EXCEPT ![p] = n.t]
         /\ rank_picard' = [rank_picard EXCEPT ![p] = n.k]
  /\ events' = Record(p, "update_temperature")
  /\ UNCHANGED <<barrier_calls, solve_args>>
  /\ UNCHANGED rank_fixed

InitRanks ==
  /\ GridSizes({<<1, 1, 0>>})
  /\ n_pins_ = 1
  /\ Constructing
  /\ tally = [base |-> 4, slope |-> 0]
  /\ geom = <<>>
  /\ openmc_active = TRUE
  /\ heat_active = TRUE
  /\ max_timesteps_ \in 0 .. MaxTimesteps
  /\ max_picard_iter_ \in 0 .. MaxPicard
  /\ RanksIdle
  /\ rank_openmc_active \in [Ranks -> BOOLEAN]
  /\ rank_heat_active \in [Ranks -> BOOLEAN]

NextRanks ==
  \/ \E p \in Ranks : RankEnter(p)
  \/ \E p \in Ranks : RankInitStep(p)
  \/ \E p \in Ranks : RankSolveStep(p)
  \/ \E p \in Ranks : RankFinalizeStep(p)
  \/ \E p \in Ranks : RankBarrierEnter(p)
  \/ \E p \in Ranks : RankBarrierLeave(p)
  \/ \E p \in Ranks : RankUpdateHeatSource(p)
  \/ \E p \in Ranks : RankHeatSolve(p)
  \/ \E p \in Ranks : RankUpdateTemperature(p)

SpecRanks == InitRanks /\ [][NextRanks]_vars

----------------------------------------------------------------------------
(* Claims about solve_step on the ranks of a communicator (SpecRanks) *)

\* the events of one pass of the inner loop body on rank p
ExpectedIteration(p) ==
  (IF rank_openmc_active[p] THEN <<"init_step", "solve_step", "finalize_step">> ELSE <<>>)
  \o <<"barrier", "update_heat_source">>
  \o (IF rank_heat_active[p] THEN <<"heat_solve">> ELSE <<>>)
  \o <<"barrier", "update_temperature">>

RECURSIVE Repeat(_, _)
Repeat(seq, n) == IF n = 0 THEN <<>> ELSE seq \o Repeat(seq, n - 1)

IsPrefix(a, b) == Len(a) <= Len(b) /\ a = SubSeq(b, 1, Len(a))

Iterations == max_timesteps_ * max_picard_iter_

AllRanksDone == \A p \in Ranks : rank_pc[p] = "done"

\* C1: one call of solve_step on a rank performs max_timesteps_ *
\* max_picard_iter_ times the sequence [init_step, solve_step, finalize_step
\* (transport-active ranks only), barrier, update_heat_source, heat_solve
\* (heat-active ranks only), barrier, update_temperature] and nothing else, so
\* it makes 2 * T * P barrier calls and T * P transport solves if active; and
\* as long as some rank has not returned, some rank can take a step.
SolveStepEventSequence ==
  /\ \A p \in Ranks :
       /\ IsPrefix(events[p], Repeat(ExpectedIteration(p), Iterations))
       /\ rank_pc[p] = "done" =>
            /\ events[p] = Repeat(ExpectedIteration(p), Iterations)
            /\ barrier_calls[p] = 2 * Iterations
            /\ Len(solve_args[p]) = IF rank_openmc_active[p] THEN Iterations ELSE 0
  /\ AllRanksDone \/ ENABLED NextRanks

\* a rank active in both solvers has returned from solve_step with
\* max_timesteps = 2 and max_picard_iter = 3: 6 transport and 6 heat solves
SolveStepReturned ==
  \E p \in Ranks :
    /\ rank_pc[p] = "done"
    /\ max_timesteps_ = 2
    /\ max_picard_iter_ = 3
    /\ rank_openmc_active[p]
    /\ rank_heat_active[p]
    /\ Len(solve_args[p]) = 6
    /\ Len(SelectSeq(events[p], LAMBDA e : e = "heat_solve")) = 6
    /\ \E q \in Ranks : ~rank_openmc_active[q] /\ ~rank_heat_active[q] /\ rank_pc[q] = "done"

\* the number of passes of the inner loop body rank p has completed
PassesDone(p) ==
  IF rank_pc[p] = "done"
    THEN Iterations
    ELSE rank_timestep[p] * max_picard_iter_ + rank_picard[p]

\* rank q has finished the transport finalize of pass n
TransportFinished(q, n) ==
  \/ rank_pc[q] = "done"
  \/ /\ rank_pc[q] # "idle"
     /\ \/ PassesDone(q) > n
        \/ /\ PassesDone(q) = n
           /\ rank_pc[q] \notin {"init_step", "solve_step", "finalize_step"}

\* rank q has finished the heat solve of pass n
HeatFinished(q, n) ==
  \/ rank_pc[q] = "done"
  \/ /\ rank_pc[q] # "idle"
     /\ \/ PassesDone(q) > n
        \/ /\ PassesDone(q) = n
           /\ rank_pc[q] \in {"barrier2", "wait2", "update_temperature"}

\* C2: with equal loop bounds on all ranks, a rank that is at or past the
\* heat-source projection of pass n finds the transport finalize of pass n
\* finished on every transport-active rank; a rank at the temperature
\* projection of pass n finds the heat solve of pass n finished on every
\* heat-active rank; and no rank is at the heat solve of a later pass while
\* another rank is at the temperature projection of an earlier one.
BarriersSeparatePhases ==
  \A p, q \in Ranks :
    /\ ( /\ rank_pc[p] \in {"update_heat_source", "heat_solve", "barrier2", "wait2",
                            "update_temperature"}
         /\ rank_openmc_active[q] )
         => TransportFinished(q, PassesDone(p))
    /\ (rank_pc[p] = "update_temperature" /\ rank_heat_active[q])
         => HeatFinished(q, PassesDone(p))
    /\ (rank_pc[p] = "heat_solve" /\ rank_pc[q] = "update_temperature")
         => PassesDone(q) >= PassesDone(p)

\* in the second pass, one rank is at its heat solve while a transport-active
\* rank has not yet started its projection
RanksMeetAtBarrier ==
  \E p, q \in Ranks :
    /\ p # q
    /\ rank_pc[p] = "heat_solve"
    /\ PassesDone(p) = 1
    /\ rank_openmc_active[q]
    /\ rank_heat_active[q]
    /\ rank_pc[q] = "update_heat_source"

\* C10: the iteration indices passed to the transport solver's solve_step
\* during one call of solve_step are pairwise distinct.
SolveIndicesDistinct ==
  \A p \in Ranks :
    \A a, b \in 1 .. Len(solve_args[p]) :
      a # b => solve_args[p][a] # solve_args[p][b]

----------------------------------------------------------------------------
(* Claims about the tables init_mappings builds (Spec) *)

Contains(seq, v) == \E n \in 1 .. Len(seq) : seq[n] = v

Count(seq, v) == Cardinality({n \in 1 .. Len(seq) : seq[n] = v})

\* init_mappings has returned
Mapped == pc # "init_mappings"

RingKeys ==
  (0 .. RingCount) \cup DOMAIN ring_to_cell_inst_
    \cup UNION {{cell_inst_to_ring_[c][n] : n \in 1 .. Len(cell_inst_to_ring_[c])} :
                  c \in DOMAIN cell_inst_to_ring_}

CellKeys ==
  (0 .. Len(cells_)) \cup DOMAIN cell_inst_to_ring_
    \cup UNION {{ring_to_cell_inst_[r][n] : n \in 1 .. Len(ring_to_cell_inst_[r])} :
                  r \in DOMAIN ring_to_cell_inst_}

\* C3: after init_mappings, ring r occurs in cell_inst_to_ring_[c] if and
\* only if cell instance c occurs in ring_to_cell_inst_[r], for every r and c.
ForwardReverseConsistent ==
  Mapped =>
    \A r \in RingKeys, c \in CellKeys :
      (c \in DOMAIN cell_inst_to_ring_ /\ Contains(cell_inst_to_ring_[c], r))
        <=> (r \in DOMAIN ring_to_cell_inst_ /\ Contains(ring_to_cell_inst_[r], c))

\* the tables are built, one ring maps to two cell instances and one cell
\* instance to two rings
TablesBuiltManyToMany ==
  /\ Mapped
  /\ \E r \in DOMAIN ring_to_cell_inst_ :
       Contains(ring_to_cell_inst_[r], 0) /\ Contains(ring_to_cell_inst_[r], 1)
  /\ \E c \in DOMAIN cell_inst_to_ring_ :
       Contains(cell_inst_to_ring_[c], 0) /\ Contains(cell_inst_to_ring_[c], 1)

\* C4: after init_mappings the forward table has exactly the ring indices
\* 0 .. n_pins*n_axial*n_rings - 1 as keys, each with a non-empty entry; every
\* registered cell instance occurs in some ring's entry and has a non-empty
\* reverse entry; each is stored at the index tracked records for it, and no
\* cell instance is registered twice.
MappingCoversRingsAndCells ==
  Mapped =>
    /\ DOMAIN ring_to_cell_inst_ = 0 .. RingCount - 1
    /\ \A r \in DOMAIN ring_to_cell_inst_ : Len(ring_to_cell_inst_[r]) > 0
    /\ \A n \in 0 .. Len(cells_) - 1 :
         /\ \E r \in DOMAIN ring_to_cell_inst_ : Contains(ring_to_cell_inst_[r], n)
         /\ n \in DOMAIN cell_inst_to_ring_
         /\ Len(cell_inst_to_ring_[n]) > 0
         /\ tracked[cells_[n + 1].id] = n
    /\ DOMAIN tracked = {cells_[a].id : a \in 1 .. Len(cells_)}
    /\ \A a, b \in 1 .. Len(cells_) : a # b => cells_[a].id # cells_[b].id

\* two pins have been mapped and two cell instances registered
TwoPinsTwoCellsMapped == Mapped /\ n_pins_ = 2 /\ NRings = 2 /\ Len(cells_) = 2

\* C8 as amended: after init_mappings every ring's forward entry has
\* n_azimuthal entries, entry m the registry index of the cell instance that
\* sample m resolved to, so a cell instance occurs once per sample that
\* resolved to it; and ring r occurs in cell_inst_to_ring_[c] as often as c
\* occurs in ring_to_cell_inst_[r].
ForwardHoldsEverySample ==
  Mapped =>
    /\ \A c \in RingCells :
         LET entry == ring_to_cell_inst_[FlatIndex(c[1], c[2], c[3])]
         IN  /\ Len(entry) = n_azimuthal
             /\ \A m \in 0 .. n_azimuthal - 1 :
                  cells_[entry[m + 1] + 1].id = geom[SamplePosition(c[2], c[3], m)]
    /\ \A r \in DOMAIN ring_to_cell_inst_, n \in DOMAIN cell_inst_to_ring_ :
         Count(cell_inst_to_ring_[n], r) = Count(ring_to_cell_inst_[r], n)

\* C8 as stated: no cell-instance index occurs twice in a ring's forward
\* entry and no ring index twice in a cell instance's reverse entry.
EntriesHoldDistinctIndices ==
  Mapped =>
    /\ \A r \in DOMAIN ring_to_cell_inst_ :
         \A a, b \in 1 .. Len(ring_to_cell_inst_[r]) :
           a # b => ring_to_cell_inst_[r][a] # ring_to_cell_inst_[r][b]
    /\ \A n \in DOMAIN cell_inst_to_ring_ :
         \A a, b \in 1 .. Len(cell_inst_to_ring_[n]) :
           a # b => cell_inst_to_ring_[n][a] # cell_inst_to_ring_[n][b]

\* a ring three of whose samples resolved to one cell instance and one to another
SamplesShareACell ==
  /\ Mapped
  /\ \E r \in DOMAIN ring_to_cell_inst_ :
       Count(ring_to_cell_inst_[r], 0) = 3 /\ Count(ring_to_cell_inst_[r], 1) = 1

RingInner(k) ==
  IF k < n_fuel_rings_ THEN r_grid_fuel_(k) ELSE r_grid_clad_(k - n_fuel_rings_)

RingOuter(k) ==
  IF k < n_fuel_rings_ THEN r_grid_fuel_(k + 1) ELSE r_grid_clad_(k - n_fuel_rings_ + 1)

\* p lies in radial ring k of pin i, between the boundaries of layer j
InsideRing(i, j, k, p) ==
  LET dx == p.x - LenScale * pin_centers_(i)[1]
      dy == p.y - LenScale * pin_centers_(i)[2]
      d2 == dx * dx + dy * dy
  IN  /\ (LenScale * RingInner(k)) * (LenScale * RingInner(k)) <= d2
      /\ d2 <= (LenScale * RingOuter(k)) * (LenScale * RingOuter(k))
      /\ 2 * z_(j) <= p.z
      /\ p.z <= 2 * z_(j + 1)

\* C9: every point init_mappings passes to point location for the ring
\* (pin i, layer j, radial ring k) lies inside that ring of that pin.
SamplesInsideOwnRing ==
  pc = "init_mappings" =>
    \A m \in 0 .. n_azimuthal - 1 :
      InsideRing(frame.i, frame.j, frame.k, SamplePosition(frame.j, frame.k, m))

----------------------------------------------------------------------------
(* Claims about init_tallies and the two projections (SpecCoupled) *)

\* C7: no tallies are requested before init_mappings and init_tallies have
\* run; afterwards create_tallies has been called exactly once on a
\* transport-active process and never on another, its argument one entry per
\* registered cell instance, in registry order, each that cell instance's
\* material index minus 1.
TalliesRequestedOnce ==
  IF pc \in {"init_mappings", "init_tallies"}
    THEN tally_requests = <<>>
    ELSE IF openmc_active
      THEN tally_requests =
             <<[n \in 1 .. Len(cells_) |-> MaterialIndex(cells_[n].id) - 1]>>
      ELSE tally_requests = <<>>

\* tallies requested for two cell instances, registered in the order 2, 1
TalliesRequestedInRegistryOrder ==
  /\ pc = "constructed"
  /\ openmc_active
  /\ Len(cells_) = 2
  /\ cells_[1].id = 2
  /\ tally_requests = <<<<MaterialIndex(2) - 1, MaterialIndex(1) - 1>>>>

\* the registry index of the cell instance that sample m of the ring resolved to
SampleCell(j, k, m) == tracked[geom[SamplePosition(j, k, m)]]

\* the sum of Q over the samples m .. n_azimuthal - 1 of a ring
RECURSIVE SampleSumQ(_, _, _)
SampleSumQ(j, k, m) ==
  IF m = n_azimuthal THEN 0 ELSE Q(SampleCell(j, k, m)) + SampleSumQ(j, k, m + 1)

RECURSIVE SetSumQ(_)
SetSumQ(cellset) ==
  IF cellset = {}
    THEN 0
    ELSE LET c == CHOOSE x \in cellset : TRUE
         IN  Q(c) + SetSumQ(cellset \ {c})

DistinctCells(j, k) == {SampleCell(j, k, m) : m \in 0 .. n_azimuthal - 1}

\* update_heat_source has run in this pass and the tallies are as it read them
SourceProjected == pc \in {"heat_solve", "update_temperature"}

\* C5 as amended: after update_heat_source every cladding ring has source
\* exactly 0 and every fuel ring the mean of Q over its n_azimuthal samples,
\* each cell instance counted once per sample that resolved to it; the field
\* is a function of Q and the mapping alone, whatever it held before.
HeatSourceIsSampleMean ==
  SourceProjected =>
    \A c \in RingCells :
      source_[c] = IF c[3] >= n_fuel_rings_
                     THEN Rat(0, 1)
                     ELSE Rat(SampleSumQ(c[2], c[3], 0), n_azimuthal)

\* C5 as stated: a fuel ring's source is the mean of Q over the set of
\* distinct cell instances the ring maps to.
HeatSourceIsDistinctCellMean ==
  SourceProjected =>
    \A c \in RingCells :
      source_[c] = IF c[3] >= n_fuel_rings_
                     THEN Rat(0, 1)
                     ELSE Rat(SetSumQ(DistinctCells(c[2], c[3])),
                              Cardinality(DistinctCells(c[2], c[3])))

\* the second projection on a process without transport (Q unchanged), with a
\* cladding ring and a fuel ring whose samples split 3 to 1 over two cell
\* instances of different Q
SourceProjectedTwice ==
  /\ pc = "heat_solve"
  /\ i_picard = 1
  /\ ~openmc_active
  /\ n_clad_rings_ > 0
  /\ tally.slope # 0
  /\ Count(ring_to_cell_inst_[0], 0) = 1
  /\ Count(ring_to_cell_inst_[0], 1) = 3

\* how many samples of the ring with flattened index r resolved to cell n
Samples(r, n) ==
  Cardinality({m \in 0 .. n_azimuthal - 1 :
                 SampleCell(Unflatten(r)[2], Unflatten(r)[3], m) = n})

\* r_outer^2 - r_inner^2 of the radial band of the ring with flattened index r
BandWeight(r) ==
  RingOuter(Unflatten(r)[3]) * RingOuter(Unflatten(r)[3])
    - RingInner(Unflatten(r)[3]) * RingInner(Unflatten(r)[3])

\* sums over the rings r .. RingCount - 1 of cell n: <<sum of w*t, sum of w>>,
\* the weight of a ring its band weight times Samples (byCount) or its band
\* weight once if any sample resolved to n
RECURSIVE WeightedSums(_, _, _)
WeightedSums(n, r, byCount) ==
  IF r = RingCount
    THEN <<0, 0>>
    ELSE LET rest == WeightedSums(n, r + 1, byCount)
             w == IF byCount
                    THEN Samples(r, n) * BandWeight(r)
                    ELSE IF Samples(r, n) > 0 THEN BandWeight(r) ELSE 0
         IN  <<w * temperature_[Unflatten(r)] + rest[1], w + rest[2]>>

\* update_temperature has run and the temperature field is as it read it
TemperatureProjected ==
  \/ pc = "done"
  \/ pc \in {"transport", "update_heat_source", "heat_solve"} /\ i_picard > 0

\* C6 as amended: after update_temperature the temperature of cell instance
\* c is sum(s_r * w_r * t_r) / sum(s_r * w_r) over the rings r mapped to c,
\* with t_r the ring's temperature, w_r = r_outer^2 - r_inner^2 of its radial
\* band and s_r the number of azimuthal samples of r that resolved to c.
CellTemperatureIsSampleWeightedMean ==
  TemperatureProjected =>
    \A n \in 0 .. Len(cells_) - 1 :
      cell_temperature[n] =
        Rat(WeightedSums(n, 0, TRUE)[1], WeightedSums(n, 0, TRUE)[2])

\* C6 as stated: each mapped ring contributes its band weight once, however
\* many of its samples resolved to c.
CellTemperatureIsRingWeightedMean ==
  TemperatureProjected =>
    \A n \in 0 .. Len(cells_) - 1 :
      cell_temperature[n] =
        Rat(WeightedSums(n, 0, FALSE)[1], WeightedSums(n, 0, FALSE)[2])

\* a cell instance mapped to a fuel ring at 300 by one sample and to a
\* cladding ring of the same band weight at 320 by four: it is set to 316
UnequalSampleCountsAveraged ==
  /\ pc = "done"
  /\ n_pins_ = 1
  /\ NRings = 2
  /\ BandWeight(0) = BandWeight(1)
  /\ temperature_[<<0, 0, 0>>] = 300
  /\ temperature_[<<0, 0, 1>>] = 320
  /\ \E n \in 0 .. Len(cells_) - 1 :
       /\ Samples(0, n) = 1
       /\ Samples(1, n) = 4
       /\ cell_temperature[n] = Rat(316, 1)

====
